---- MODULE Spec2Model ----
(***************************************************************************)
(* Keyed provider caches of package tracing (quiqupltd/quiqupgo).          *)
(*                                                                         *)
(* GetTracerProvider, GetMeterProvider and GetLoggerProvider are three     *)
(* copies of the same double-checked cache, one map and one mutex per      *)
(* provider kind.  A goroutine is modelled by its position inside the get  *)
(* it is executing; the two critical sections are atomic steps, except     *)
(* that the discard path keeps the mutex (it is released by a deferred     *)
(* Unlock) while the losing candidate is shut down.                        *)
(***************************************************************************)
EXTENDS Integers, Sequences, FiniteSets, TLC

\* ---------------------------------------------------------------- bounds
MaxCalls == 2          \* get calls started in one behaviour
MaxShutdowns == 2      \* shutdown calls recorded per provider
MaxMessages == 2       \* messages a reader fetches from its topic
MaxFetchErrors == 1    \* transient fetch errors a reader meets
MaxLog == 3            \* messages published to the in-memory double
MaxBatch == 2          \* messages in one PublishBatch call
MaxHeaders == 3        \* headers a carrier holds

\* The goroutines that call into the package; two are enough to race.
Threads == {"g1", "g2"}
NoThread == "none"
Kinds == {"tracer", "meter", "logger"}
Keys == {"svc-a", "svc-b"}
NilProvider == 0

\* ------------------------------------------------------- configurations
\* StandardConfig: the fields the factory reads.  TLS fields are abstract
\* values: "" (unset), "ok", "notb64" (not base64), "badpem" (not PEM).
CfgDisabled == [endpoint |-> "", cert |-> "", key |-> "", ca |-> ""]
CfgLive == [endpoint |-> "collector:4318", cert |-> "", key |-> "", ca |-> ""]
CfgBadCert == [endpoint |-> "collector:4318", cert |-> "notb64", key |-> "ok", ca |-> ""]
Configs == {CfgDisabled, CfgLive, CfgBadCert}

\* Outcomes of the calls the factory makes into the environment
\* (resource.New, otlptracehttp.New).
EnvOutcomes == {"ok", "resource", "exporter"}

GetTLSConfigEach(cfg) ==
  IF cfg.cert = "" /\ cfg.key = "" /\ cfg.ca = "" THEN "none"
  ELSE IF cfg.cert = "notb64" THEN "failed to decode TLS certificate"
  ELSE IF cfg.key = "notb64" THEN "failed to decode TLS key"
  ELSE IF cfg.cert # "" /\ cfg.key # "" /\ (cfg.cert = "badpem" \/ cfg.key = "badpem")
         THEN "failed to load TLS key pair"
  ELSE IF cfg.ca = "notb64" THEN "failed to decode TLS CA certificate"
  ELSE IF cfg.ca = "badpem" THEN "failed to parse TLS CA certificate"
  ELSE "config"
\* GetTLSConfig: "none" when no TLS field is set, "config" for a usable
\* tls.Config, otherwise the error of the first artifact that fails.
GetTLSConfig(cfg) ==
  IF cfg.cert = "" /\ cfg.key = "" /\ cfg.ca = "" THEN "none"
  ELSE IF cfg.cert # "" /\ cfg.key # "" /\ cfg.cert = "notb64"
         THEN "failed to decode TLS certificate"
  ELSE IF cfg.cert # "" /\ cfg.key # "" /\ cfg.key = "notb64"
         THEN "failed to decode TLS key"
  ELSE IF cfg.cert # "" /\ cfg.key # "" /\ (cfg.cert = "badpem" \/ cfg.key = "badpem")
         THEN "failed to load TLS key pair"
  ELSE IF cfg.ca = "notb64" THEN "failed to decode TLS CA certificate"
  ELSE IF cfg.ca = "badpem" THEN "failed to parse TLS CA certificate"
  ELSE "config"

TLSFailed(r) == r \notin {"none", "config"}

EndpointDisabledAlways(cfg) == FALSE
\* createTracerProvider's first test: empty endpoint, export disabled.
EndpointDisabled(cfg) == cfg.endpoint = ""

createProviderTLSFirst(cfg, env) ==
  IF env = "resource"
    THEN [err |-> "failed to create resource", built |-> FALSE, exporter |-> FALSE]
  ELSE IF TLSFailed(GetTLSConfig(cfg))
    THEN [err |-> "failed to create TLS config", built |-> FALSE, exporter |-> FALSE]
  ELSE IF EndpointDisabled(cfg)
    THEN [err |-> "nil", built |-> FALSE, exporter |-> FALSE]
  ELSE IF env = "exporter"
    THEN [err |-> "failed to create OTLP exporter", built |-> FALSE, exporter |-> TRUE]
  ELSE [err |-> "nil", built |-> TRUE, exporter |-> TRUE]
\* createTracerProvider / createMeterProvider / createLoggerProvider as a
\* function of the config and of the environment's outcome: err is the
\* returned error ("nil" for none), built says whether a provider object
\* was constructed (and registered as the global default), exporter
\* whether the OTLP exporter constructor was invoked.
createProvider(cfg, env) ==
  IF EndpointDisabled(cfg)
    THEN [err |-> "nil", built |-> FALSE, exporter |-> FALSE]
  ELSE IF env = "resource"
    THEN [err |-> "failed to create resource", built |-> FALSE, exporter |-> FALSE]
  ELSE IF TLSFailed(GetTLSConfig(cfg))
    THEN [err |-> "failed to create TLS config", built |-> FALSE, exporter |-> FALSE]
  ELSE IF env = "exporter"
    THEN [err |-> "failed to create OTLP exporter", built |-> FALSE, exporter |-> TRUE]
  ELSE [err |-> "nil", built |-> TRUE, exporter |-> TRUE]

\* ---------------------------------------------------------------- state
VARIABLES
  cache,          \* cache[k]: the map tracerProviders / meterProviders / loggerProviders
  mu,             \* mu[k]: holder of tracerProvidersMu / ..., NoThread when free
  th,             \* th[t]: goroutine t, its position and locals inside Get*Provider
  provs,          \* provider objects ever constructed, by id: kind, key, shutdown calls
  global,         \* global[k]: otel's process-wide default provider of kind k
  gets,           \* number of Get*Provider calls started
  factoryCalls,   \* number of create*Provider invocations
  exporterCalls,  \* number of OTLP exporter constructor invocations
  last,           \* the most recent return of a get: its line, arguments and results
  returned,       \* returned[k][key]: values handed out by successful gets since the last clear
  dropped,        \* providers that a clear removed from a cache
  apps,           \* apps[t]: the fx app goroutine t builds, its TracingModule and stop hook
  shut,           \* the most recent provider shutdown call: path, provider, context, error
  fac,            \* one call of GetTLSConfig and of the factory: arguments and results
  kc,             \* a KafkaConsumer: its Subscribe call, consume goroutine and reader
  sp,             \* the calls of a traced service method, each with its span
  mw,             \* a tracing middleware and the request it served last
  mem,            \* an InMemoryKafka: its topic logs and the slice GetMessages returned
  hc              \* a kafkaHeaderCarrier and the result of the last call on it

cacheVars == <<cache, mu, th, provs, global, gets, factoryCalls, exporterCalls, last, returned, dropped>>
libVars == <<mw, mem, hc>>
vars == <<cacheVars, apps, shut, fac, kc, sp, libVars>>

EmptyMap == [x \in {} |-> NilProvider]

\* A goroutine outside Get*Provider.
IdleThread ==
  [pc |-> "idle", kind |-> "tracer", key |-> "svc-a", cfg |-> CfgDisabled,
   tp |-> NilProvider, existing |-> NilProvider]

NoReturn ==
  [line |-> 0, kind |-> "tracer", key |-> "svc-a", cfg |-> CfgDisabled,
   tp |-> NilProvider, ret |-> NilProvider, err |-> "nil"]

\* A goroutine that has not built an fx app with tracing.Module().
NoApp ==
  [pc |-> "none", key |-> "svc-a", cfg |-> CfgDisabled, tp |-> NilProvider,
   mp |-> NilProvider, ctx |-> "background", terr |-> "none", merr |-> "none",
   ret |-> "none"]

\* No provider shutdown has been called yet.
NoShutdown == [path |-> "none", p |-> NilProvider, ctx |-> "none", err |-> "nil"]

\* No call of GetTLSConfig or of the factory is under way.
NoFactoryCall ==
  [pc |-> "idle", cfg |-> CfgDisabled, env |-> "ok", tls |-> "pending",
   err |-> "pending", built |-> FALSE, exporter |-> FALSE]

\* The topics a consumer may be subscribed to.
Topics == {"events", "audit"}

\* A topic without consume goroutine: nothing fetched, handled or committed.
NoReader ==
  [pc |-> "none", offset |-> 0, handled |-> <<>>, commits |-> <<>>, fetchErrs |-> 0,
   dialTLS |-> FALSE, dialSASL |-> FALSE]

\* The stop hook of the kafka module has not run.
NoHook ==
  [pc |-> "idle", producer |-> "KafkaProducer", perr |-> "none", cerr |-> "none",
   ret |-> "none"]

\* NewConsumer: no readers, Subscribe not called.
NoConsumer ==
  [ctx |-> "live", sub |-> "idle", ret |-> "none", closed |-> {},
   g |-> [tpc \in Topics |-> NoReader], tls |-> "off", sasl |-> "off",
   hook |-> NoHook]

\* The calls of a traced method the model follows.
Calls == {"c1", "c2"}

\* A call that has not reached s.Trace yet.
NoCall ==
  [pc |-> "none", ptr |-> "nil", err |-> "nil", atDefer |-> "nil", events |-> 0,
   status |-> "Unset", desc |-> "", ended |-> 0]

\* A request: its method, the path of its URL and the route it matched.
NoRequest == [method |-> "GET", url |-> "/health", route |-> "/health"]

\* A middleware that has served nothing.
NoMiddleware ==
  [kind |-> "http", skip |-> {}, pc |-> "idle", req |-> NoRequest, next |-> 0,
   spans |-> <<>>]

\* The topics and messages of the in-memory test double.
MemTopics == {"orders", "users"}
Msgs == {"m1", "m2"}

\* No slice has been returned by GetMessages.  backing names the array the
\* returned slice points into: "fresh" for an array of its own, a topic
\* for the array of that topic's log.
NoGot == [topic |-> "none", msgs |-> <<>>, backing |-> "fresh", current |-> FALSE]

\* NewInMemoryKafka: empty topic map.  hist is the history of publishes
\* since the last Clear as one sequence of <<topic, message>> pairs, kept
\* beside the implementation's per-topic log.
NoMem ==
  [topics |-> [tpc \in MemTopics |-> <<>>], hist |-> <<>>, got |-> NoGot,
   op |-> "none"]

\* A carrier without headers on which nothing was called.
NoCarrier ==
  [headers |-> <<>>, op |-> "none", key |-> "", value |-> "", res |-> "",
   keys |-> <<>>, before |-> <<>>]

\* Nothing outside the provider caches has happened.
RestIdle ==
  /\ apps = [t \in Threads |-> NoApp]
  /\ shut = NoShutdown
  /\ fac = NoFactoryCall
  /\ kc = NoConsumer
  /\ sp = [c \in Calls |-> NoCall]
  /\ mw = NoMiddleware
  /\ mem = NoMem
  /\ hc = NoCarrier

\* The package after load: empty maps, free mutexes, no global default.
CacheInit ==
  /\ cache = [k \in Kinds |-> EmptyMap]
  /\ mu = [k \in Kinds |-> NoThread]
  /\ th = [t \in Threads |-> IdleThread]
  /\ provs = <<>>
  /\ global = [k \in Kinds |-> NilProvider]
  /\ gets = 0
  /\ factoryCalls = 0
  /\ exporterCalls = 0
  /\ last = NoReturn
  /\ returned = [k \in Kinds |-> [key \in Keys |-> {}]]
  /\ dropped = {}

Init ==
  /\ CacheInit
  /\ RestIdle

\* -------------------------------------------------------------- helpers
LiveIn(ps, p) == p \in 1..Len(ps) /\ ps[p].shutdowns = 0
Live(p) == LiveIn(provs, p)

\* tp.Shutdown(ctx) on a provider object: one more shutdown call recorded.
ProviderShutdown(ps, p) == [ps EXCEPT ![p].shutdowns = @ + 1]

Record(k, key, v) == [returned EXCEPT ![k][key] = @ \cup {v}]

\* The return statement at `line` of the get goroutine t is executing.
ReturnAt(t, line, ret, err) ==
  [line |-> line, kind |-> th[t].kind, key |-> th[t].key, cfg |-> th[t].cfg,
   tp |-> th[t].tp, ret |-> ret, err |-> err]

\* Providers some caller holds: every provider that was ever inserted into
\* a cache was returned by the get that inserted it.
Cached(k) == {cache[k][key] : key \in DOMAIN cache[k]} \ {NilProvider}
HandedOut == dropped \cup UNION {Cached(k) : k \in Kinds}

\* ------------------------------------------------------------- the gets
\* A caller invokes Get<K>Provider(ctx, cfg) with cfg.GetServiceName() = key.
\* Positions: "check" at the first Lock, "create" inside create*Provider,
\* "recheck" at the second Lock, "discard" inside tp.Shutdown on the
\* discard path.
StartGet(t, k, key, cfg) ==
  /\ th[t].pc = "idle"
  /\ gets < MaxCalls
  /\ gets' = gets + 1
  /\ th' = [th EXCEPT ![t] = [pc |-> "check", kind |-> k, key |-> key, cfg |-> cfg,
                              tp |-> NilProvider, existing |-> NilProvider]]
  /\ UNCHANGED <<cache, mu, provs, global, factoryCalls, exporterCalls, last, returned, dropped>>

CacheHitNever(c, key) == FALSE
\* `if tp, ok := tracerProviders[serviceName]; ok` of the first check.
CacheHit(c, key) == key \in DOMAIN c

\* First critical section: Lock, look the service name up, Unlock; a hit
\* returns the cached value (line 33).
CheckCache(t) ==
  LET k == th[t].kind
      key == th[t].key IN
  /\ th[t].pc = "check"
  /\ mu[k] = NoThread
  /\ IF CacheHit(cache[k], key)
       THEN /\ th' = [th EXCEPT ![t] = IdleThread]
            /\ last' = ReturnAt(t, 33, cache[k][key], "nil")
            /\ returned' = Record(k, key, cache[k][key])
       ELSE /\ th' = [th EXCEPT ![t].pc = "create"]
            /\ UNCHANGED <<last, returned>>
  /\ UNCHANGED <<cache, mu, provs, global, gets, factoryCalls, exporterCalls, dropped>>

RegisterDefaultOnce(g, k, id) == IF g[k] = NilProvider THEN [g EXCEPT ![k] = id] ELSE g
\* otel.SetTracerProvider(tp) / otel.SetMeterProvider(mp) /
\* global.SetLoggerProvider(lp): the new provider becomes the default.
RegisterDefault(g, k, id) == [g EXCEPT ![k] = id]

FactoryFailedNever(r) == FALSE
\* `if err != nil { return nil, err }` after the factory call.
FactoryFailed(r) == r.err # "nil"

\* The factory call, outside any lock; a failure returns (nil, err) at
\* line 48.
Create(t) ==
  LET k == th[t].kind
      id == Len(provs) + 1 IN
  /\ th[t].pc = "create"
  /\ \E env \in EnvOutcomes :
       LET r == createProvider(th[t].cfg, env) IN
       /\ factoryCalls' = factoryCalls + 1
       /\ exporterCalls' = IF r.exporter THEN exporterCalls + 1 ELSE exporterCalls
       /\ IF r.built
            THEN /\ provs' = Append(provs, [kind |-> k, key |-> th[t].key, shutdowns |-> 0])
                 /\ global' = RegisterDefault(global, k, id)
            ELSE UNCHANGED <<provs, global>>
       /\ IF FactoryFailed(r)
            THEN /\ th' = [th EXCEPT ![t] = IdleThread]
                 /\ last' = ReturnAt(t, 48, NilProvider, r.err)
            ELSE /\ th' = [th EXCEPT ![t].pc = "recheck",
                                     ![t].tp = IF r.built THEN id ELSE NilProvider]
                 /\ UNCHANGED last
  /\ UNCHANGED <<cache, mu, gets, returned, dropped>>

LoserReturnOwn(existingTP, tp) == tp
\* `return existingTP, nil` of the discard path.
LoserReturn(existingTP, tp) == existingTP

InsertAlone(c, key, tp) == (key :> tp)
\* `tracerProviders[serviceName] = tp`: the entry of this service name is
\* written, every other entry of the map stays.
Insert(c, key, tp) == (key :> tp) @@ c

\* Second critical section: Lock, re-check, insert (line 62-63) or give way
\* (line 59).  With a non-nil candidate and an entry already present the
\* mutex stays held (deferred Unlock) while the candidate is shut down.
Recheck(t) ==
  LET k == th[t].kind
      key == th[t].key
      tp == th[t].tp IN
  /\ th[t].pc = "recheck"
  /\ mu[k] = NoThread
  /\ IF key \in DOMAIN cache[k]
       THEN IF tp # NilProvider
              THEN /\ mu' = [mu EXCEPT ![k] = t]
                   /\ th' = [th EXCEPT ![t].pc = "discard", ![t].existing = cache[k][key]]
                   /\ UNCHANGED <<cache, last, returned>>
              ELSE /\ th' = [th EXCEPT ![t] = IdleThread]
                   /\ last' = ReturnAt(t, 59, LoserReturn(cache[k][key], tp), "nil")
                   /\ returned' = Record(k, key, LoserReturn(cache[k][key], tp))
                   /\ UNCHANGED <<cache, mu>>
       ELSE /\ cache' = [cache EXCEPT ![k] = Insert(@, key, tp)]
            /\ th' = [th EXCEPT ![t] = IdleThread]
            /\ last' = ReturnAt(t, 63, tp, "nil")
            /\ returned' = Record(k, key, tp)
            /\ UNCHANGED mu
  /\ UNCHANGED <<provs, global, gets, factoryCalls, exporterCalls, dropped>>

ShutdownOutcomes == {"nil", "shutdown failed"}

DiscardCandidateSkipped(ps, tp) == ps
\* `if tp != nil { _ = tp.Shutdown(ctx) }`: the losing candidate is closed.
DiscardCandidate(ps, tp) == IF tp # NilProvider THEN ProviderShutdown(ps, tp) ELSE ps

DiscardErrorKept(e) == e
\* `_ = tp.Shutdown(ctx)`: the error of the discard-path shutdown is dropped.
DiscardError(e) == "nil"

\* The discard path: shut the candidate down, return the cached provider
\* (line 59), and release the mutex on the way out.
Discard(t) ==
  LET k == th[t].kind IN
  /\ th[t].pc = "discard"
  /\ \E e \in ShutdownOutcomes :
       last' = ReturnAt(t, 59, LoserReturn(th[t].existing, th[t].tp), DiscardError(e))
  /\ th' = [th EXCEPT ![t] = IdleThread]
  /\ provs' = DiscardCandidate(provs, th[t].tp)
  /\ mu' = [mu EXCEPT ![k] = NoThread]
  /\ returned' = Record(k, th[t].key, LoserReturn(th[t].existing, th[t].tp))
  /\ UNCHANGED <<cache, global, gets, factoryCalls, exporterCalls, dropped>>

\* ---------------------------------------------------------------- clear
ClearProviderCacheKeeps(k) ==
  /\ mu[k] = NoThread
  /\ dropped' = dropped \cup Cached(k)
  /\ returned' = [returned EXCEPT ![k] = [key \in Keys |-> {}]]
  /\ UNCHANGED <<cache, mu, th, provs, global, gets, factoryCalls, exporterCalls, last>>

ClearProviderCacheCloses(k) ==
  /\ mu[k] = NoThread
  /\ cache' = [cache EXCEPT ![k] = EmptyMap]
  /\ dropped' = dropped \cup Cached(k)
  /\ returned' = [returned EXCEPT ![k] = [key \in Keys |-> {}]]
  /\ provs' = [p \in 1..Len(provs) |->
                 IF p \in Cached(k) /\ provs[p].shutdowns < MaxShutdowns
                   THEN [provs[p] EXCEPT !.shutdowns = @ + 1] ELSE provs[p]]
  /\ UNCHANGED <<mu, th, global, gets, factoryCalls, exporterCalls, last>>

\* ClearTracerProviderCache / ClearMeterProviderCache /
\* ClearLoggerProviderCache: the map is replaced by a fresh one.
ClearProviderCache(k) ==
  /\ mu[k] = NoThread
  /\ cache' = [cache EXCEPT ![k] = EmptyMap]
  /\ dropped' = dropped \cup Cached(k)
  /\ returned' = [returned EXCEPT ![k] = [key \in Keys |-> {}]]
  /\ UNCHANGED <<mu, th, provs, global, gets, factoryCalls, exporterCalls, last>>

\* ------------------------------------------------------------- shutdown
ShutdownProviderTwice(p) ==
  /\ p # NilProvider
  /\ provs[p].shutdowns + 1 < MaxShutdowns
  /\ provs' = ProviderShutdown(ProviderShutdown(provs, p), p)
  /\ UNCHANGED <<cache, mu, th, global, gets, factoryCalls, exporterCalls, last, returned, dropped>>

\* ShutdownTracerProvider / ShutdownMeterProvider / ShutdownLoggerProvider
\* called by a caller on a provider it was handed (nil is a no-op).
ShutdownProvider(p) ==
  /\ IF p = NilProvider
       THEN UNCHANGED provs
       ELSE /\ provs[p].shutdowns < MaxShutdowns
            /\ provs' = ProviderShutdown(provs, p)
  /\ UNCHANGED <<cache, mu, th, global, gets, factoryCalls, exporterCalls, last, returned, dropped>>

Next ==
  \/ \E t \in Threads, k \in Kinds, key \in Keys, cfg \in Configs :
       StartGet(t, k, key, cfg) /\ UNCHANGED <<apps, shut, fac, kc, sp, libVars>>
  \/ \E t \in Threads : CheckCache(t) /\ UNCHANGED <<apps, shut, fac, kc, sp, libVars>>
  \/ \E t \in Threads : Create(t) /\ UNCHANGED <<apps, shut, fac, kc, sp, libVars>>
  \/ \E t \in Threads : Recheck(t) /\ UNCHANGED <<apps, shut, fac, kc, sp, libVars>>
  \/ \E t \in Threads : Discard(t) /\ UNCHANGED <<apps, shut, fac, kc, sp, libVars>>
  \/ \E k \in Kinds : ClearProviderCache(k) /\ UNCHANGED <<apps, shut, fac, kc, sp, libVars>>
  \/ \E p \in HandedOut \cup {NilProvider} :
       ShutdownProvider(p) /\ UNCHANGED <<apps, shut, fac, kc, sp, libVars>>

Spec == Init /\ [][Next]_vars

TypeOK ==
  /\ \A k \in Kinds : DOMAIN cache[k] \subseteq Keys
  /\ \A k \in Kinds : mu[k] \in Threads \cup {NoThread}
  /\ Len(provs) <= MaxCalls

\* ------------------------------------------------- tracing.Module and fx
\* Contexts by their deadline: context.Background() has none, a caller's
\* context may carry one, context.WithTimeout(ctx, 5*time.Second) is
\* bounded by five seconds whatever its parent.
Background == "background"
CallerCtxs == {"background", "deadline"}
WithTimeout(ctx) == "5s"

\* What tp.Shutdown can do when the context ends it: "unresponsive" is an
\* exporter that never answers, which a deadline turns into an error.
HookOutcomes == ShutdownOutcomes \cup {"unresponsive"}
ShutdownError(o) == IF o = "unresponsive" THEN "context deadline exceeded" ELSE o

NilIsNoopNever(p) == FALSE
\* `if tp == nil { return nil }` of Shutdown*Provider.
NilIsNoop(p) == p = NilProvider

\* ShutdownTracerProvider / ShutdownMeterProvider / ShutdownLoggerProvider
\* as a function: the provider table after the call, the returned error
\* and the context tp.Shutdown ran under ("none" when it was not called).
ShutdownWithTimeout(ps, p, ctx, o) ==
  IF NilIsNoop(p)
    THEN [provs |-> ps, err |-> "nil", ctx |-> "none"]
    ELSE [provs |-> ProviderShutdown(ps, p), err |-> ShutdownError(o),
          ctx |-> WithTimeout(ctx)]

\* newTracingModule, first half: ctx := context.Background() and the call
\* of GetTracerProvider(ctx, cfg).
NewTracingModule(t, key, cfg) ==
  /\ apps[t].pc = "none"
  /\ th[t].pc = "idle"
  /\ apps' = [apps EXCEPT ![t] = [NoApp EXCEPT !.pc = "tracer", !.key = key, !.cfg = cfg]]
  /\ th' = [th EXCEPT ![t] = [pc |-> "check", kind |-> "tracer", key |-> key, cfg |-> cfg,
                              tp |-> NilProvider, existing |-> NilProvider]]
  /\ gets' = gets + 1
  /\ UNCHANGED <<cache, mu, provs, global, factoryCalls, exporterCalls, last, returned,
                 dropped, shut, fac, kc, sp, libVars>>

\* What newTracingModule does with the result of the get that returns in
\* this step: an error aborts construction (lines 56-58, 62-64), the tracer
\* provider is kept for the meter call, the meter provider completes the
\* TracingModule, whose stop hook fx then registers.
ModuleAfterGet(t) ==
  IF th'[t].pc # "idle" THEN apps
  ELSE IF last'.err # "nil"
    THEN [apps EXCEPT ![t].pc = "failed", ![t].ret = last'.err]
  ELSE IF apps[t].pc = "tracer"
    THEN [apps EXCEPT ![t].pc = "meterCall", ![t].tp = last'.ret]
    ELSE [apps EXCEPT ![t].pc = "started", ![t].mp = last'.ret]

\* The shutdown of the discard path runs under the context the caller of
\* the get passed, here newTracingModule's context.Background().
ModuleDiscardLog(t) ==
  IF th[t].pc = "discard"
    THEN [path |-> "discard", p |-> th[t].tp, ctx |-> Background, err |-> last'.err]
    ELSE shut

\* One step of the get that newTracingModule is waiting for.
ModuleCheckCache(t) ==
  /\ CheckCache(t)
  /\ apps' = ModuleAfterGet(t)
  /\ UNCHANGED <<shut, fac, kc, sp, libVars>>

ModuleCreate(t) ==
  /\ Create(t)
  /\ apps' = ModuleAfterGet(t)
  /\ UNCHANGED <<shut, fac, kc, sp, libVars>>

ModuleRecheck(t) ==
  /\ Recheck(t)
  /\ apps' = ModuleAfterGet(t)
  /\ UNCHANGED <<shut, fac, kc, sp, libVars>>

ModuleDiscard(t) ==
  /\ Discard(t)
  /\ apps' = ModuleAfterGet(t)
  /\ shut' = ModuleDiscardLog(t)
  /\ UNCHANGED <<fac, kc, sp, libVars>>

\* The discard path against an exporter that never answers: tp.Shutdown(ctx)
\* has no deadline to end it, the goroutine stays inside it with the mutex
\* held.
ModuleDiscardBlocks(t) ==
  /\ th[t].pc = "discard"
  /\ th' = [th EXCEPT ![t].pc = "blocked"]
  /\ provs' = DiscardCandidate(provs, th[t].tp)
  /\ shut' = [path |-> "discard", p |-> th[t].tp, ctx |-> Background, err |-> "blocked"]
  /\ UNCHANGED <<cache, mu, global, gets, factoryCalls, exporterCalls, last, returned,
                 dropped, apps, fac, kc, sp, libVars>>

\* newTracingModule, second half: the call of GetMeterProvider(ctx, cfg).
MeterCall(t) ==
  /\ apps[t].pc = "meterCall"
  /\ th[t].pc = "idle"
  /\ apps' = [apps EXCEPT ![t].pc = "meter"]
  /\ th' = [th EXCEPT ![t] = [pc |-> "check", kind |-> "meter", key |-> apps[t].key,
                              cfg |-> apps[t].cfg, tp |-> NilProvider,
                              existing |-> NilProvider]]
  /\ gets' = gets + 1
  /\ UNCHANGED <<cache, mu, provs, global, factoryCalls, exporterCalls, last, returned,
                 dropped, shut, fac, kc, sp, libVars>>

AbortOnErrorAlways(err) == err # "nil"
\* `_ = err`: the hook logs a shutdown error and goes on.
AbortOnError(err) == FALSE

\* The OnStop hook of registerLifecycleHooks, first half: the tracer
\* provider of this TracingModule is shut down if it is not nil.
StopTracer(t, ctx) ==
  /\ apps[t].pc = "started"
  /\ \E o \in HookOutcomes :
       LET r == ShutdownWithTimeout(provs, apps[t].tp, ctx, o)
           called == apps[t].tp # NilProvider
           err == IF called THEN r.err ELSE "none" IN
       /\ provs' = IF called THEN r.provs ELSE provs
       /\ shut' = IF called
                    THEN [path |-> "hook", p |-> apps[t].tp, ctx |-> r.ctx, err |-> r.err]
                    ELSE shut
       /\ apps' = IF called /\ AbortOnError(r.err)
                    THEN [apps EXCEPT ![t].pc = "stopped", ![t].ctx = ctx,
                                      ![t].terr = err, ![t].ret = r.err]
                    ELSE [apps EXCEPT ![t].pc = "stopMeter", ![t].ctx = ctx, ![t].terr = err]
  /\ UNCHANGED <<cache, mu, th, global, gets, factoryCalls, exporterCalls, last, returned,
                 dropped, fac, kc, sp, libVars>>

\* The OnStop hook, second half: the meter provider, then `return nil`.
StopMeter(t) ==
  /\ apps[t].pc = "stopMeter"
  /\ \E o \in HookOutcomes :
       LET r == ShutdownWithTimeout(provs, apps[t].mp, apps[t].ctx, o)
           called == apps[t].mp # NilProvider
           err == IF called THEN r.err ELSE "none" IN
       /\ provs' = IF called THEN r.provs ELSE provs
       /\ shut' = IF called
                    THEN [path |-> "hook", p |-> apps[t].mp, ctx |-> r.ctx, err |-> r.err]
                    ELSE shut
       /\ apps' = [apps EXCEPT ![t].pc = "stopped", ![t].merr = err,
                               ![t].ret = IF called /\ AbortOnError(r.err)
                                            THEN r.err ELSE "nil"]
  /\ UNCHANGED <<cache, mu, th, global, gets, factoryCalls, exporterCalls, last, returned,
                 dropped, fac, kc, sp, libVars>>

\* Application code calls Shutdown*Provider(ctx, p) itself; the apps of
\* this specification leave their providers to the stop hooks and call it
\* with nil only.
CallShutdown(p, ctx) ==
  /\ p # NilProvider => provs[p].shutdowns < MaxShutdowns
  /\ \E o \in HookOutcomes :
       LET r == ShutdownWithTimeout(provs, p, ctx, o) IN
       /\ provs' = r.provs
       /\ shut' = [path |-> "direct", p |-> p, ctx |-> r.ctx, err |-> r.err]
  /\ UNCHANGED <<cache, mu, th, global, gets, factoryCalls, exporterCalls, last, returned,
                 dropped, apps, fac, kc, sp, libVars>>

ModuleNext ==
  \/ \E t \in Threads, key \in Keys, cfg \in Configs : NewTracingModule(t, key, cfg)
  \/ \E t \in Threads : ModuleCheckCache(t)
  \/ \E t \in Threads : ModuleCreate(t)
  \/ \E t \in Threads : ModuleRecheck(t)
  \/ \E t \in Threads : ModuleDiscard(t)
  \/ \E t \in Threads : ModuleDiscardBlocks(t)
  \/ \E t \in Threads : MeterCall(t)
  \/ \E t \in Threads, ctx \in CallerCtxs : StopTracer(t, ctx)
  \/ \E t \in Threads : StopMeter(t)
  \/ \E ctx \in CallerCtxs : CallShutdown(NilProvider, ctx)

\* Two goroutines that each build, start and stop one fx app with
\* tracing.Module(), next to application code that shuts providers down.
SpecModule == Init /\ [][ModuleNext]_vars

\* ------------------------------------------------------- claim vocabulary
Providers == 1..Len(provs)

\* p is the value the cache of its kind holds for its service name.
IsCachedIn(c, ps, p) ==
  /\ ps[p].key \in DOMAIN c[ps[p].kind]
  /\ c[ps[p].kind][ps[p].key] = p
IsCached(p) == IsCachedIn(cache, provs, p)

\* p is the candidate of a get that has constructed it and not yet
\* finished its re-check.
InFlight(p) == \E t \in Threads : th[t].pc \in {"recheck", "discard"} /\ th[t].tp = p

LiveOf(k, key) ==
  {p \in Providers : provs[p].kind = k /\ provs[p].key = key /\ Live(p)}

\* Goroutine t takes a step of its get.
Moves(t) == th[t].pc # "idle" /\ th'[t] # th[t]

\* Goroutine t executes a return statement of its get in this step.
Returns(t) == th[t].pc # "idle" /\ th'[t].pc = "idle"

\* C1: all gets of one service name that succeed between two clears of the
\* cache, concurrent or not, return one and the same value, and that value
\* is the entry the cache holds for the name.
C1_SameInstance ==
  \A k \in Kinds, key \in Keys :
    /\ Cardinality(returned[k][key]) <= 1
    /\ returned[k][key] # {} =>
         /\ key \in DOMAIN cache[k]
         /\ returned[k][key] = {cache[k][key]}

\* A get has lost a race with its own live candidate and returned the
\* cached provider, which the winner was handed too.
C1_Witness ==
  /\ last.line = 59
  /\ last.tp # NilProvider
  /\ last.ret # NilProvider
  /\ returned[last.kind][last.key] = {last.ret}
  /\ last.key \in DOMAIN cache[last.kind]
  /\ cache[last.kind][last.key] = last.ret

\* C2 as stated: at most one provider that was created and not yet shut
\* down exists per (kind, service name), in every reachable state.
C2_AtMostOneLive ==
  \A k \in Kinds, key \in Keys : Cardinality(LiveOf(k, key)) <= 1

\* C2 as amended: every live provider is the cached one of its (kind,
\* service name), or the candidate of a get still between construction and
\* the end of its re-check, or a provider that a clear dropped from the
\* cache; so at most one live provider per pair is canonical.
C2_LiveAccounted ==
  /\ \A p \in Providers : Live(p) => IsCached(p) \/ InFlight(p) \/ p \in dropped
  /\ \A k \in Kinds, key \in Keys :
       Cardinality({p \in LiveOf(k, key) : ~InFlight(p) /\ p \notin dropped}) <= 1

\* Two live providers of one pair: the cached one and a racing candidate.
C2_Witness ==
  \E p, q \in Providers :
    /\ p # q
    /\ provs[p].kind = provs[q].kind /\ provs[p].key = provs[q].key
    /\ Live(p) /\ Live(q)
    /\ IsCached(p) /\ InFlight(q)

\* C3: racing gets call the factory at most once each; a candidate that
\* did not survive (neither cached, nor dropped by a clear, nor still in
\* flight) has been shut down exactly once; that shutdown happens at the
\* re-check, with the entry that beat it still in the cache; and the losing
\* get returns that entry with a nil error whatever the shutdown returned.
C3_RaceResolution ==
  /\ factoryCalls <= gets
  /\ \A p \in Providers :
       ~IsCached(p) /\ p \notin dropped /\ ~InFlight(p) => provs[p].shutdowns = 1
  /\ \A t \in Threads :
       th[t].pc = "discard" =>
         /\ mu[th[t].kind] = t
         /\ th[t].key \in DOMAIN cache[th[t].kind]
         /\ cache[th[t].kind][th[t].key] = th[t].existing
         /\ provs[th[t].tp].shutdowns = 0
  /\ last.line = 59 =>
       /\ last.err = "nil"
       /\ last.ret \in HandedOut \cup {NilProvider}
       /\ last.tp # NilProvider => last.ret # last.tp /\ provs[last.tp].shutdowns = 1

\* A loser with a live candidate has returned: its candidate is closed
\* once, the winner's provider is cached and was never shut down.
C3_Witness ==
  /\ last.line = 59
  /\ last.tp # NilProvider
  /\ provs[last.tp].shutdowns = 1
  /\ last.ret # NilProvider
  /\ IsCached(last.ret)
  /\ Live(last.ret)
  /\ factoryCalls >= 2

\* C4: a get whose first check finds the service name in the cache returns
\* the cached value at once: the factory is not called, no exporter is
\* constructed, and the cache is left as it was.
C4_FastPath ==
  [][\A t \in Threads :
       (/\ th[t].pc = "check"
        /\ Moves(t)
        /\ th[t].key \in DOMAIN cache[th[t].kind])
       => /\ Returns(t)
          /\ last'.line = 33
          /\ last'.ret = cache[th[t].kind][th[t].key]
          /\ last'.err = "nil"
          /\ factoryCalls' = factoryCalls
          /\ exporterCalls' = exporterCalls
          /\ provs' = provs
          /\ cache' = cache]_vars

\* A get was served a live provider from the cache.
C4_Witness ==
  /\ last.line = 33
  /\ last.ret # NilProvider
  /\ IsCached(last.ret)

SecondGetSame(t) ==
  (/\ th[t].pc = "check"
   /\ Moves(t)
   /\ th[t].key \in DOMAIN cache[th[t].kind]
   /\ cache[th[t].kind][th[t].key] # NilProvider)
  => /\ last'.ret = cache[th[t].kind][th[t].key]
     /\ exporterCalls' = exporterCalls
     /\ provs' = provs

\* A factory call with the scenario's configuration that succeeds performs
\* exactly one exporter construction and builds exactly one provider.
OneConstruction(t) ==
  (/\ th[t].pc = "create"
   /\ th[t].cfg = CfgLive
   /\ th'[t].pc = "recheck")
  => /\ exporterCalls' = exporterCalls + 1
     /\ Len(provs') = Len(provs) + 1
     /\ th'[t].tp = Len(provs')
     /\ LiveIn(provs', th'[t].tp)

\* A stop (Shutdown<K>Provider on a provider a caller holds) records exactly
\* one close call, against that provider alone.
StopClosesOnce ==
  (th' = th /\ provs' # provs) =>
    \E p \in Providers : provs' = [provs EXCEPT ![p].shutdowns = @ + 1]

\* C6 as stated: once a get of "svc-a" has returned Disabled, a get of
\* "svc-a" with endpoint "collector:4318" returns a live provider; a second
\* such get returns the same instance with no construction; a stop records
\* one close call.
C6_ScenarioAsStated ==
  [][/\ \A t \in Threads :
          (/\ Returns(t)
           /\ th[t].key = "svc-a"
           /\ th[t].cfg = CfgLive
           /\ NilProvider \in returned[th[t].kind]["svc-a"]
           /\ last'.err = "nil")
          => last'.ret # NilProvider /\ LiveIn(provs', last'.ret)
     /\ \A t \in Threads : OneConstruction(t) /\ SecondGetSame(t)
     /\ StopClosesOnce]_vars

\* C6 as amended: once a get of "svc-a" has returned Disabled, a get of
\* "svc-a" with endpoint "collector:4318" returns the cached Disabled
\* sentinel with no construction for as long as the cache is not cleared;
\* a get with that endpoint that finds no entry returns a live provider
\* built with one construction; a second such get returns the same
\* instance with no construction; a stop records one close call.
C6_Scenario ==
  [][/\ \A t \in Threads :
          (/\ Returns(t)
           /\ th[t].key = "svc-a"
           /\ th[t].cfg = CfgLive
           /\ NilProvider \in returned[th[t].kind]["svc-a"]
           /\ last'.err = "nil")
          => /\ last'.ret = NilProvider
             /\ last'.line \in {33, 59}
             /\ exporterCalls' = exporterCalls
             /\ cache' = cache
     /\ \A t \in Threads :
          (/\ Returns(t)
           /\ th[t].cfg = CfgLive
           /\ last'.line = 63)
          => /\ last'.ret # NilProvider
             /\ LiveIn(provs', last'.ret)
             /\ IsCachedIn(cache', provs', last'.ret)
             /\ returned'[th[t].kind][th[t].key] = {last'.ret}
     /\ \A t \in Threads : OneConstruction(t) /\ SecondGetSame(t)
     /\ StopClosesOnce]_vars

\* The scenario's second call has happened: Disabled is cached for "svc-a"
\* and a get with endpoint "collector:4318" was served it from the cache.
C6_Witness ==
  /\ last.line = 33
  /\ last.key = "svc-a"
  /\ last.cfg = CfgLive
  /\ last.ret = NilProvider
  /\ "svc-a" \in DOMAIN cache[last.kind]
  /\ cache[last.kind]["svc-a"] = NilProvider
  /\ exporterCalls = 0

\* C7: a factory call that fails (a get with an endpoint whose factory call
\* builds no provider) returns nil and the error at once, and leaves every
\* cache, and the record of what was handed out, exactly as it was.
C7_FailureLeavesCache ==
  [][\A t \in Threads :
       (/\ th[t].pc = "create"
        /\ Moves(t)
        /\ th[t].cfg.endpoint # ""
        /\ provs' = provs)
       => /\ Returns(t)
          /\ last'.line = 48
          /\ last'.ret = NilProvider
          /\ last'.err # "nil"
          /\ cache' = cache
          /\ returned' = returned
          /\ mu' = mu]_vars

\* A get has failed and its service name has no cache entry, so the next
\* get of that name misses and calls the factory again.
C7_Witness ==
  /\ last.line = 48
  /\ last.err = "failed to create TLS config"
  /\ last.ret = NilProvider
  /\ last.key \notin DOMAIN cache[last.kind]

\* C8: no goroutine is inside the factory or inside a provider shutdown
\* while it holds a cache mutex.
C8_NoIOUnderLock ==
  \A t \in Threads :
    th[t].pc \in {"create", "discard"} => \A k \in Kinds : mu[k] # t

\* C9: a clear leaves one cache empty and changes nothing else: no
\* provider is shut down, the other caches, the global defaults and the
\* gets in flight are untouched.
C9_ClearOnlyDrops ==
  [][(th' = th /\ (cache' # cache \/ dropped' # dropped)) =>
       /\ \E k \in Kinds :
            /\ cache'[k] = EmptyMap
            /\ \A k2 \in Kinds \ {k} : cache'[k2] = cache[k2]
            /\ dropped' = dropped \cup Cached(k)
       /\ provs' = provs
       /\ global' = global
       /\ mu' = mu]_vars

\* A provider was dropped by a clear and is live; its cache is empty.
C9_Witness ==
  \E p \in dropped :
    /\ Live(p)
    /\ cache[provs[p].kind] = EmptyMap

\* C10: no cache holds, and no get since the last clear has returned, a
\* provider that a clear dropped; and a get that finds its service name
\* absent goes on to call the factory.
C10_ClearIsolation ==
  [][/\ \A k \in Kinds : Cached(k)' \cap dropped' = {}
     /\ \A k \in Kinds, key \in Keys : returned'[k][key] \cap dropped' = {}
     /\ \A t \in Threads :
          (/\ th[t].pc = "check"
           /\ Moves(t)
           /\ th[t].key \notin DOMAIN cache[th[t].kind])
          => th'[t].pc = "create"
     /\ \A t \in Threads :
          (th[t].pc = "create" /\ Moves(t)) => factoryCalls' = factoryCalls + 1]_vars

\* After a clear a get of the same service name has been handed a new
\* provider, distinct from the one cached before the clear.
C10_Witness ==
  \E p \in dropped :
    /\ last.line = 63
    /\ last.kind = provs[p].kind
    /\ last.key = provs[p].key
    /\ last.ret # NilProvider
    /\ last.ret # p
    /\ IsCached(last.ret)

\* ------------------------------------------- GetTLSConfig and the factory
\* The values a TLS field can hold, and every StandardConfig over them.
TLSValues == {"", "ok", "notb64", "badpem"}
AllConfigs ==
  [endpoint : {"", "collector:4318"}, cert : TLSValues, key : TLSValues, ca : TLSValues]

\* A caller is about to pass cfg to GetTLSConfig and to the factory, in an
\* environment whose calls will end as env says.
FactoryInit ==
  /\ CacheInit
  /\ apps = [t \in Threads |-> NoApp]
  /\ shut = NoShutdown
  /\ kc = NoConsumer
  /\ sp = [c \in Calls |-> NoCall]
  /\ mw = NoMiddleware
  /\ mem = NoMem
  /\ hc = NoCarrier
  /\ fac \in {[NoFactoryCall EXCEPT !.pc = "args", !.cfg = c, !.env = e] :
                c \in AllConfigs, e \in EnvOutcomes}

\* GetTLSConfig(cfg) is called and its result kept.
CallGetTLSConfig ==
  /\ fac.pc = "args"
  /\ fac' = [fac EXCEPT !.pc = "tls", !.tls = GetTLSConfig(fac.cfg)]
  /\ UNCHANGED <<cacheVars, apps, shut, kc, sp, libVars>>

\* create*Provider(ctx, cfg) is called and its result kept.
CallFactory ==
  /\ fac.pc = "tls"
  /\ LET r == createProvider(fac.cfg, fac.env) IN
       fac' = [fac EXCEPT !.pc = "done", !.err = r.err, !.built = r.built,
                          !.exporter = r.exporter]
  /\ UNCHANGED <<cacheVars, apps, shut, kc, sp, libVars>>

FactoryNext ==
  \/ CallGetTLSConfig
  \/ CallFactory

SpecFactory == FactoryInit /\ [][FactoryNext]_vars

\* The errors of GetTLSConfig that name the client certificate or its key.
ClientCertErrors ==
  {"failed to decode TLS certificate", "failed to decode TLS key",
   "failed to load TLS key pair"}

WellFormed(v) == v \in {"", "ok"}

\* C15 as stated: an invalid base64 field yields the error naming that
\* field whichever of the other two fields are set (here: unset or valid),
\* and three empty fields yield (nil, nil).
C15_EachFieldNamed ==
  fac.pc \in {"tls", "done"} =>
    /\ (fac.cfg.cert = "notb64" /\ WellFormed(fac.cfg.key) /\ WellFormed(fac.cfg.ca))
         => fac.tls = "failed to decode TLS certificate"
    /\ (fac.cfg.key = "notb64" /\ WellFormed(fac.cfg.cert) /\ WellFormed(fac.cfg.ca))
         => fac.tls = "failed to decode TLS key"
    /\ (fac.cfg.ca = "notb64" /\ WellFormed(fac.cfg.cert) /\ WellFormed(fac.cfg.key))
         => fac.tls = "failed to decode TLS CA certificate"
    /\ (fac.cfg.cert = "" /\ fac.cfg.key = "" /\ fac.cfg.ca = "") => fac.tls = "none"

\* C15: certificate and key are decoded only when both are set.  Then an
\* invalid base64 certificate yields the error naming the certificate, and
\* an invalid base64 key behind a decodable certificate the error naming
\* the key.  With one of the two unset neither is looked at, valid or not.
\* An invalid base64 CA yields the error naming the CA unless the client
\* pair failed first.  Three empty fields yield (nil, nil).
C15_ErrorSpecificity ==
  fac.pc \in {"tls", "done"} =>
    /\ (fac.cfg.cert = "notb64" /\ fac.cfg.key # "")
         => fac.tls = "failed to decode TLS certificate"
    /\ (fac.cfg.key = "notb64" /\ fac.cfg.cert \notin {"", "notb64"})
         => fac.tls = "failed to decode TLS key"
    /\ (fac.cfg.cert = "" \/ fac.cfg.key = "") => fac.tls \notin ClientCertErrors
    /\ (fac.cfg.ca = "notb64" /\ fac.tls \notin ClientCertErrors)
         => fac.tls = "failed to decode TLS CA certificate"
    /\ (fac.cfg.cert = "" /\ fac.cfg.key = "" /\ fac.cfg.ca = "") => fac.tls = "none"

\* An invalid base64 certificate without a key has passed GetTLSConfig
\* unnoticed: a tls.Config came back and no error.
C15_Witness ==
  /\ fac.pc = "tls"
  /\ fac.cfg.cert = "notb64"
  /\ fac.cfg.key = ""
  /\ fac.tls = "config"

\* The provider of kind k constructed last, NilProvider if there is none.
LatestOf(ps, k) ==
  LET S == {p \in 1..Len(ps) : ps[p].kind = k} IN
  IF S = {} THEN NilProvider ELSE CHOOSE p \in S : \A q \in S : q <= p

\* C16: the global default of each kind is the provider of that kind
\* constructed last; a factory call that constructs none (export disabled
\* or construction failed) leaves every global default as it was.
C16_GlobalDefault ==
  [][/\ \A k \in Kinds : global'[k] = LatestOf(provs', k)
     /\ \A t \in Threads :
          (th[t].pc = "create" /\ Moves(t) /\ Len(provs') = Len(provs))
            => global' = global]_vars

\* A second provider of one kind has replaced the first as global default.
C16_Witness ==
  \E k \in Kinds :
    /\ Len(provs) = 2
    /\ provs[1].kind = k
    /\ provs[2].kind = k
    /\ global[k] = 2

\* C17: with an empty endpoint the factory returns the disabled marker and
\* no error, constructs nothing and calls no exporter constructor,
\* whatever the TLS fields hold.
C17_DisabledIgnoresTLS ==
  (fac.pc = "done" /\ fac.cfg.endpoint = "")
    => (fac.err = "nil" /\ ~fac.built /\ ~fac.exporter)

\* The factory has returned disabled for a config whose TLS material
\* GetTLSConfig rejects.
C17_Witness ==
  /\ fac.pc = "done"
  /\ fac.cfg.endpoint = ""
  /\ TLSFailed(fac.tls)
  /\ fac.err = "nil"
  /\ ~fac.built

\* ------------------------------------------------ lifecycle (SpecModule)
\* Shutdown calls that stop hooks have made on provider p.
HookShutdowns(p) ==
  Cardinality({t \in Threads : apps[t].tp = p /\ apps[t].terr # "none"})
    + Cardinality({t \in Threads : apps[t].mp = p /\ apps[t].merr # "none"})

\* C11: over all stop sequences a provider receives at most one shutdown
\* call from stop hooks, however many apps were served it from the cache.
C11_OneStopPerProvider == \A p \in Providers : HookShutdowns(p) <= 1

\* C12: a call of Shutdown*Provider with a nil provider returns nil and
\* does nothing: no tp.Shutdown runs, no provider, cache or app changes.
C12_NilShutdownNoop ==
  [][(shut' # shut /\ shut'.path = "direct" /\ shut'.p = NilProvider)
       => /\ shut'.err = "nil"
          /\ shut'.ctx = "none"
          /\ UNCHANGED <<cacheVars, apps>>]_vars

\* Shutdown*Provider(ctx, nil) has returned nil while a live provider
\* exists that it left alone.
C12_Witness ==
  /\ shut.path = "direct"
  /\ shut.p = NilProvider
  /\ shut.err = "nil"
  /\ \E p \in Providers : Live(p)

\* C13: a stop hook that has run to its end returned nil and called the
\* shutdown of every provider its TracingModule holds, tracer and meter,
\* whatever the earlier shutdown returned.
C13_HookShutsBoth ==
  \A t \in Threads :
    apps[t].pc = "stopped" =>
      /\ apps[t].ret = "nil"
      /\ apps[t].tp # NilProvider =>
           apps[t].terr # "none" /\ provs[apps[t].tp].shutdowns >= 1
      /\ apps[t].mp # NilProvider =>
           apps[t].merr # "none" /\ provs[apps[t].mp].shutdowns >= 1

\* A hook whose tracer shutdown failed has gone on to shut its meter
\* provider down and returned nil.
C13_Witness ==
  \E t \in Threads :
    /\ apps[t].pc = "stopped"
    /\ apps[t].terr \notin {"none", "nil"}
    /\ apps[t].mp # NilProvider
    /\ apps[t].merr # "none"
    /\ apps[t].ret = "nil"

\* C14: every provider shutdown of the subsystem, on the stop-hook path and
\* on the discard path, runs under a context bounded by five seconds, and
\* none stays blocked in a shutdown that does not complete on its own.
C14_BoundedShutdown ==
  /\ shut.path \in {"hook", "discard"} => shut.ctx = WithTimeout(Background)
  /\ \A t \in Threads : th[t].pc # "blocked"

\* ------------------------------------------------------- KafkaConsumer
\* createReader: the dialer gets TLS and SASL when they are enabled and
\* their material builds; a build error is logged and the reader is made
\* from the dialer as it is.
createReader(k) ==
  [NoReader EXCEPT !.pc = "loop", !.dialTLS = (k.tls = "ok"), !.dialSASL = (k.sasl = "ok")]

\* Subscribe(ctx, topics, handler): a reader and a consume goroutine per
\* topic, then the caller blocks on ctx.Done().
Subscribe(topics) ==
  /\ kc.sub = "idle"
  /\ kc' = [kc EXCEPT !.sub = "blocked",
                      !.g = [tpc \in Topics |->
                               IF tpc \in topics THEN createReader(kc) ELSE kc.g[tpc]]]
  /\ UNCHANGED <<cacheVars, apps, shut, fac, sp, libVars>>

\* `<-ctx.Done()`: the only thing Subscribe waits for.
SubscribeWakes(k) == k.ctx = "cancelled"

\* `return ctx.Err()`.
SubscribeReturn ==
  /\ kc.sub = "blocked"
  /\ SubscribeWakes(kc)
  /\ kc' = [kc EXCEPT !.sub = "returned", !.ret = "context canceled"]
  /\ UNCHANGED <<cacheVars, apps, shut, fac, sp, libVars>>

\* The caller's context is cancelled.
Cancel ==
  /\ kc.ctx = "live"
  /\ kc' = [kc EXCEPT !.ctx = "cancelled"]
  /\ UNCHANGED <<cacheVars, apps, shut, fac, sp, libVars>>

\* KafkaConsumer.Close: every reader created so far is closed.
Close ==
  /\ {tpc \in Topics : kc.g[tpc].pc # "none"} \ kc.closed # {}
  /\ kc' = [kc EXCEPT !.closed = @ \cup {tpc \in Topics : kc.g[tpc].pc # "none"}]
  /\ UNCHANGED <<cacheVars, apps, shut, fac, sp, libVars>>

\* consumeTopic, `case <-ctx.Done(): return`, and the return after a fetch
\* that the cancelled context ended.
ConsumerStops(tpc) ==
  /\ kc.g[tpc].pc = "loop"
  /\ kc.ctx = "cancelled"
  /\ kc' = [kc EXCEPT !.g[tpc].pc = "stopped"]
  /\ UNCHANGED <<cacheVars, apps, shut, fac, sp, libVars>>

\* reader.FetchMessage returns the next message of the topic.
FetchMessage(tpc) ==
  /\ kc.g[tpc].pc = "loop"
  /\ kc.ctx = "live"
  /\ tpc \notin kc.closed
  /\ kc.g[tpc].offset < MaxMessages
  /\ kc' = [kc EXCEPT !.g[tpc].pc = "handle", !.g[tpc].offset = @ + 1]
  /\ UNCHANGED <<cacheVars, apps, shut, fac, sp, libVars>>

\* reader.FetchMessage on a closed reader returns io.EOF: consumeTopic
\* returns, consuming the topic has failed.
FetchEOF(tpc) ==
  /\ kc.g[tpc].pc = "loop"
  /\ kc.ctx = "live"
  /\ tpc \in kc.closed
  /\ kc' = [kc EXCEPT !.g[tpc].pc = "failed"]
  /\ UNCHANGED <<cacheVars, apps, shut, fac, sp, libVars>>

FetchErrorEndsAlways(err) == TRUE
\* `if errors.Is(err, io.EOF) || ctx.Err() != nil { return }` while the
\* context is live: only io.EOF ends the loop.
FetchErrorEnds(err) == err = "EOF"

\* reader.FetchMessage returns another error: logged, the loop goes on.
FetchError(tpc) ==
  /\ kc.g[tpc].pc = "loop"
  /\ kc.ctx = "live"
  /\ tpc \notin kc.closed
  /\ kc.g[tpc].fetchErrs < MaxFetchErrors
  /\ kc' = [kc EXCEPT !.g[tpc].fetchErrs = @ + 1,
                      !.g[tpc].pc = IF FetchErrorEnds("fetch failed") THEN "failed" ELSE "loop"]
  /\ UNCHANGED <<cacheVars, apps, shut, fac, sp, libVars>>

HandlerResults == {"nil", "handler failed"}

CommitAfterAlways(r) == TRUE
\* `if err := c.processMessage(...); err != nil { ...; continue }`: only a
\* handler that returned nil lets the loop reach CommitMessages.
CommitAfter(r) == r = "nil"

\* processMessage: the handler runs on the fetched message.
Handle(tpc) ==
  /\ kc.g[tpc].pc = "handle"
  /\ \E r \in HandlerResults :
       kc' = [kc EXCEPT !.g[tpc].handled = Append(@, r),
                        !.g[tpc].pc = IF CommitAfter(r) THEN "commit" ELSE "loop"]
  /\ UNCHANGED <<cacheVars, apps, shut, fac, sp, libVars>>

\* reader.CommitMessages(ctx, msg); its error is logged only.
Commit(tpc) ==
  /\ kc.g[tpc].pc = "commit"
  /\ kc' = [kc EXCEPT !.g[tpc].commits = Append(@, kc.g[tpc].offset),
                      !.g[tpc].pc = "loop"]
  /\ UNCHANGED <<cacheVars, apps, shut, fac, sp, libVars>>

ConsumerNext ==
  \/ \E topics \in SUBSET Topics : Subscribe(topics)
  \/ SubscribeReturn
  \/ Cancel
  \/ Close
  \/ \E tpc \in Topics : ConsumerStops(tpc)
  \/ \E tpc \in Topics : FetchMessage(tpc)
  \/ \E tpc \in Topics : FetchEOF(tpc)
  \/ \E tpc \in Topics : FetchError(tpc)
  \/ \E tpc \in Topics : Handle(tpc)
  \/ \E tpc \in Topics : Commit(tpc)

\* One KafkaConsumer, one Subscribe call, a context that may be cancelled
\* and a Close that may come at any time.
SpecConsumer == Init /\ [][ConsumerNext]_vars

\* How often offset o of the topic was passed to CommitMessages.
CommitCount(r, o) == Cardinality({i \in 1..Len(r.commits) : r.commits[i] = o})

\* C18: a message is passed to CommitMessages only after its handler
\* returned nil, and a message whose handler returned nil is committed
\* exactly once, at the latest in the step that follows the handler.
C18_CommitOnSuccess ==
  \A tpc \in Topics :
    LET r == kc.g[tpc] IN
    /\ \A i \in 1..Len(r.commits) :
         r.commits[i] \in 1..Len(r.handled) /\ r.handled[r.commits[i]] = "nil"
    /\ \A o \in 1..Len(r.handled) :
         CommitCount(r, o) =
           IF r.handled[o] = "nil" /\ ~(r.pc = "commit" /\ r.offset = o) THEN 1 ELSE 0

\* A reader has skipped the commit of a message whose handler failed and
\* committed the next one, whose handler returned nil.
C18_Witness ==
  \E tpc \in Topics :
    /\ kc.g[tpc].handled = <<"handler failed", "nil">>
    /\ kc.g[tpc].commits = <<2>>

\* C19: Subscribe returns when consuming a topic fails: once a consume
\* goroutine has given up on an error, Subscribe has returned or is about
\* to be woken.
C19_ReturnsOnFailure ==
  (\E tpc \in Topics : kc.g[tpc].pc = "failed")
    => (kc.sub = "returned" \/ SubscribeWakes(kc))

\* --------------------------------------------------- BaseService.Trace
\* Values of the error variable of a traced method.
ErrValues == {"nil", "late error", "boom"}

\* s.Trace(ctx, name) starts the span; the method defers end(ptr), with
\* ptr nil or &err, while err holds e.
Trace(c, ptr, e) ==
  /\ sp[c].pc = "none"
  /\ sp' = [sp EXCEPT ![c] = [NoCall EXCEPT !.pc = "running", !.ptr = ptr, !.err = e,
                                            !.atDefer = e]]
  /\ UNCHANGED <<cacheVars, apps, shut, fac, kc, libVars>>

\* The body of the method assigns its error variable.
AssignErr(c, e) ==
  /\ sp[c].pc = "running"
  /\ sp[c].err # e
  /\ sp' = [sp EXCEPT ![c].err = e]
  /\ UNCHANGED <<cacheVars, apps, shut, fac, kc, libVars>>

ErrAtDefer(ptr, cur, atDefer) == IF ptr = "nil" THEN "nil" ELSE atDefer
\* `errPtr != nil && *errPtr != nil`: the error the closure sees is read
\* through the pointer when the closure runs.
ErrSeen(ptr, cur, atDefer) == IF ptr = "nil" THEN "nil" ELSE cur

\* The deferred SpanEndFunc runs: RecordError and SetStatus(codes.Error)
\* if it sees an error, then span.End().
EndSpan(c) ==
  /\ sp[c].pc = "running"
  /\ LET e == ErrSeen(sp[c].ptr, sp[c].err, sp[c].atDefer) IN
       sp' = [sp EXCEPT ![c].pc = "ended",
                        ![c].events = IF e # "nil" THEN @ + 1 ELSE @,
                        ![c].status = IF e # "nil" THEN "Error" ELSE @,
                        ![c].desc = IF e # "nil" THEN e ELSE @,
                        ![c].ended = @ + 1]
  /\ UNCHANGED <<cacheVars, apps, shut, fac, kc, libVars>>

TraceNext ==
  \/ \E c \in Calls, ptr \in {"nil", "&err"}, e \in ErrValues : Trace(c, ptr, e)
  \/ \E c \in Calls, e \in ErrValues : AssignErr(c, e)
  \/ \E c \in Calls : EndSpan(c)

\* Two calls of a method that traces itself with s.Trace and defers the
\* returned SpanEndFunc.
SpecTrace == Init /\ [][TraceNext]_vars

\* C20: when the SpanEndFunc has run the span is ended, once; it carries
\* one recorded error event and status Error with the error's text exactly
\* if the pointer was not nil and the error variable was not nil at that
\* time, and no event and status Unset otherwise.
C20_ErrorAtCallTime ==
  \A c \in Calls :
    sp[c].pc = "ended" =>
      /\ sp[c].ended = 1
      /\ IF sp[c].ptr # "nil" /\ sp[c].err # "nil"
           THEN sp[c].events = 1 /\ sp[c].status = "Error" /\ sp[c].desc = sp[c].err
           ELSE sp[c].events = 0 /\ sp[c].status = "Unset"

\* An error assigned after the defer was registered is on the span of one
\* call, and the span of a call that passed nil is ended with status Unset.
C20_Witness ==
  \E c, d \in Calls :
    /\ sp[c].pc = "ended"
    /\ sp[c].atDefer = "nil"
    /\ sp[c].status = "Error"
    /\ sp[c].desc = "late error"
    /\ sp[d].pc = "ended"
    /\ sp[d].ptr = "nil"
    /\ sp[d].err # "nil"
    /\ sp[d].status = "Unset"

\* ------------------------------------------- HTTPTracing and EchoTracing
\* Paths that can be given to WithSkipPaths, and the requests served: a
\* request for a static route, and one for a route with a parameter, whose
\* URL path differs from the route Echo matched.
Paths == {"/health", "/api/users", "/users/42", "/users/:id"}
Requests ==
  {[method |-> m, url |-> u, route |-> u] : m \in {"GET", "POST"}, u \in {"/health", "/api/users"}}
    \cup {[method |-> m, url |-> "/users/42", route |-> "/users/:id"] : m \in {"GET", "POST"}}

\* HTTPTracing(tp, name, WithSkipPaths(skip...)) or EchoTracing(...) has
\* been built around a next handler.
MiddlewareInit ==
  /\ CacheInit
  /\ apps = [t \in Threads |-> NoApp]
  /\ shut = NoShutdown
  /\ fac = NoFactoryCall
  /\ kc = NoConsumer
  /\ sp = [c \in Calls |-> NoCall]
  /\ mem = NoMem
  /\ hc = NoCarrier
  /\ mw \in {[NoMiddleware EXCEPT !.kind = k, !.skip = sk, !.pc = "built"] :
               k \in {"http", "echo"}, sk \in SUBSET Paths}

MatchedPathURL(kind, req) == req.url
\* `path := r.URL.Path` in HTTPTracing, `path := c.Path()` in EchoTracing:
\* Echo's Path is the route the router matched, not the path of the URL.
MatchedPath(kind, req) == IF kind = "echo" THEN req.route ELSE req.url

\* spanName: method + " " + path, kept as the pair of its two parts.
spanName(method, path) == <<method, path>>

\* The middleware serves one request; out is how the next handler ends.
ServeRequest(req, out) ==
  /\ mw.pc # "idle"
  /\ LET path == MatchedPath(mw.kind, req) IN
       mw' = [mw EXCEPT
                !.pc = "served", !.req = req, !.next = 1,
                !.spans = IF path \in mw.skip
                            THEN <<>>
                            ELSE <<[name |-> spanName(req.method, path), kind |-> "server",
                                    status |-> IF out = "error" THEN "Error" ELSE "Unset",
                                    ended |-> TRUE]>>]
  /\ UNCHANGED <<cacheVars, apps, shut, fac, kc, sp, mem, hc>>

MiddlewareNext ==
  \E req \in Requests, out \in {"ok", "error"} : ServeRequest(req, out)

SpecMiddleware == MiddlewareInit /\ [][MiddlewareNext]_vars

\* C21 as stated: a request whose URL path is in the skip set gets the
\* next handler once and no span; any other request gets the next handler
\* once and one server span named by its method and URL path.
C21_SkipByRequestPath ==
  mw.pc = "served" =>
    /\ mw.next = 1
    /\ IF mw.req.url \in mw.skip
         THEN mw.spans = <<>>
         ELSE /\ Len(mw.spans) = 1
              /\ mw.spans[1].name = spanName(mw.req.method, mw.req.url)
              /\ mw.spans[1].kind = "server"

\* C21: the path that is looked up in the skip set and that names the
\* span is the URL path for HTTPTracing and the matched route for
\* EchoTracing; with that path the claim holds for both.
C21_SkipByMatchedPath ==
  mw.pc = "served" =>
    LET path == IF mw.kind = "echo" THEN mw.req.route ELSE mw.req.url IN
    /\ mw.next = 1
    /\ IF path \in mw.skip
         THEN mw.spans = <<>>
         ELSE /\ Len(mw.spans) = 1
              /\ mw.spans[1].name = spanName(mw.req.method, path)
              /\ mw.spans[1].kind = "server"

\* EchoTracing has traced a request whose URL path is in the skip set,
\* under the name of its route.
C21_Witness ==
  /\ mw.pc = "served"
  /\ mw.kind = "echo"
  /\ mw.req.url \in mw.skip
  /\ mw.req.route \notin mw.skip
  /\ Len(mw.spans) = 1
  /\ mw.spans[1].name = <<mw.req.method, "/users/:id">>

\* ------------------------------------------------ in-memory test double
\* InMemoryKafka (and its twin InMemoryPubSub): a map from topic to the
\* slice of messages published to it, under one mutex, so that every
\* method is one atomic step.  No subscriber is registered here, so the
\* notification loop of PublishBatch has nothing to send to.
Batches == UNION {[1..n -> Msgs] : n \in 0..MaxBatch}

\* The publishes of hist that went to topic tpc, in order.
RECURSIVE PublishedTo(_, _)
PublishedTo(h, tpc) ==
  IF h = <<>> THEN <<>>
  ELSE LET rest == PublishedTo(Tail(h), tpc) IN
       IF Head(h)[1] = tpc THEN <<Head(h)[2]>> \o rest ELSE rest

\* The history entries of one batch.
Stamped(tpc, batch) == [i \in 1..Len(batch) |-> <<tpc, batch[i]>>]

\* PublishBatch: p.topics[topic] = append(p.topics[topic], messages...).
PublishBatch(tpc, batch) ==
  /\ Len(mem.hist) + Len(batch) <= MaxLog
  /\ mem' = [mem EXCEPT
               !.topics[tpc] = @ \o batch,
               !.hist = @ \o Stamped(tpc, batch),
               !.got.current = FALSE,
               !.op = "batch"]
  /\ UNCHANGED <<cacheVars, apps, shut, fac, kc, sp, mw, hc>>

\* Publish: PublishBatch of the one message.
Publish(tpc, m) ==
  /\ Len(mem.hist) + 1 <= MaxLog
  /\ mem' = [mem EXCEPT
               !.topics[tpc] = @ \o <<m>>,
               !.hist = @ \o Stamped(tpc, <<m>>),
               !.got.current = FALSE,
               !.op = "publish"]
  /\ UNCHANGED <<cacheVars, apps, shut, fac, kc, sp, mw, hc>>

\* Clear: p.topics = make(map[string][]kafka.Message).
Clear ==
  /\ mem.op # "clear"
  /\ mem' = [mem EXCEPT
               !.topics = [tpc \in MemTopics |-> <<>>],
               !.hist = <<>>,
               !.got.current = FALSE,
               !.op = "clear"]
  /\ UNCHANGED <<cacheVars, apps, shut, fac, kc, sp, mw, hc>>

ReturnedBackingStore(tpc) == tpc
\* append([]kafka.Message(nil), p.topics[topic]...): the returned slice
\* has an array of its own.
ReturnedBacking(tpc) == "fresh"

\* GetMessages(topic).
GetMessages(tpc) ==
  /\ mem' = [mem EXCEPT
               !.got = [topic |-> tpc, msgs |-> mem.topics[tpc],
                        backing |-> ReturnedBacking(tpc), current |-> TRUE],
               !.op = "get"]
  /\ UNCHANGED <<cacheVars, apps, shut, fac, kc, sp, mw, hc>>

\* The caller assigns element i of the slice GetMessages returned; the
\* write lands in the array the slice points into.
MutateReturned(i, m) ==
  /\ mem.got.topic # "none"
  /\ i \in 1..Len(mem.got.msgs)
  /\ mem.got.msgs[i] # m
  /\ mem' = [mem EXCEPT
               !.got.msgs[i] = m,
               !.got.current = FALSE,
               !.topics = IF mem.got.backing \in MemTopics /\ i <= Len(@[mem.got.backing])
                            THEN [@ EXCEPT ![mem.got.backing][i] = m]
                            ELSE @,
               !.op = "mutate"]
  /\ UNCHANGED <<cacheVars, apps, shut, fac, kc, sp, mw, hc>>

MemNext ==
  \/ \E tpc \in MemTopics, m \in Msgs : Publish(tpc, m)
  \/ \E tpc \in MemTopics, batch \in Batches : PublishBatch(tpc, batch)
  \/ Clear
  \/ \E tpc \in MemTopics : GetMessages(tpc)
  \/ \E i \in 1..MaxLog, m \in Msgs : MutateReturned(i, m)

SpecMem == Init /\ [][MemNext]_vars

\* C22: every topic's log is the sequence of messages published to that
\* topic since the last Clear, in publish order, whatever the caller did
\* to slices it was handed; the slice GetMessages has just returned is
\* that sequence; and right after Clear every topic is empty.
C22_LogIsHistory ==
  /\ \A tpc \in MemTopics : mem.topics[tpc] = PublishedTo(mem.hist, tpc)
  /\ mem.got.current => mem.got.msgs = PublishedTo(mem.hist, mem.got.topic)
  /\ mem.op = "clear" => \A tpc \in MemTopics : mem.topics[tpc] = <<>>

\* A returned slice was changed by its caller while the log it was read
\* from holds a batch between two single publishes of another topic.
C22_Witness ==
  /\ mem.op = "mutate"
  /\ mem.got.topic = "orders"
  /\ mem.got.msgs # mem.topics["orders"]
  /\ Len(mem.topics["orders"]) = 2
  /\ Len(mem.topics["users"]) = 1
  /\ mem.hist[2][1] = "users"

\* ------------------------------------------------- independence of keys
\* C23: a step of a get for service name K leaves the cache entry of
\* every other service name of its kind as it was (present or absent,
\* and the same provider), leaves the caches of the other kinds alone,
\* shuts down no provider built for another name, and when it returns
\* without error it returns what the cache then holds for K.
C23_KeysIndependent ==
  [][\A t \in Threads :
       (th[t].pc # "idle" /\ th'[t] # th[t]) =>
         LET k == th[t].kind
             key == th[t].key IN
         /\ \A other \in Keys \ {key} :
              /\ (other \in DOMAIN cache'[k]) = (other \in DOMAIN cache[k])
              /\ other \in DOMAIN cache[k] => cache'[k][other] = cache[k][other]
         /\ \A k2 \in Kinds \ {k} : cache'[k2] = cache[k2]
         /\ \A p \in 1..Len(provs) : provs[p].key # key => provs'[p] = provs[p]
         /\ (th'[t].pc = "idle" /\ last'.err = "nil") =>
              /\ key \in DOMAIN cache'[k]
              /\ cache'[k][key] = last'.ret
              /\ last'.ret # NilProvider => provs'[last'.ret].key = key]_vars

\* Two gets of one kind for the two service names have both inserted:
\* each name has its own live provider in the cache.
C23_Witness ==
  \E k \in Kinds :
    /\ Keys \subseteq DOMAIN cache[k]
    /\ \A key \in Keys :
         /\ cache[k][key] # NilProvider
         /\ provs[cache[k][key]].key = key
         /\ Live(cache[k][key])
    /\ \A t \in Threads : th[t].pc = "idle"
    /\ last.line = 63

\* ------------------------------------------------------ the kafka module
\* TLS and SASL of a Config: not enabled, enabled with material that
\* builds, enabled with material buildTLSConfig / buildSASLMechanism
\* rejects.
SecuritySettings == {"off", "ok", "bad"}

\* The Producer the application's graph hands to registerLifecycleHooks:
\* the module's own KafkaProducer or another implementation of the
\* interface.
Producers == {"KafkaProducer", "other"}

\* provideProducer and provideConsumer have run: NewConsumer has succeeded
\* whatever the TLS and SASL settings are.
KafkaModuleInit ==
  /\ CacheInit
  /\ apps = [t \in Threads |-> NoApp]
  /\ shut = NoShutdown
  /\ fac = NoFactoryCall
  /\ sp = [c \in Calls |-> NoCall]
  /\ mw = NoMiddleware
  /\ mem = NoMem
  /\ hc = NoCarrier
  /\ kc \in {[NoConsumer EXCEPT !.tls = tls, !.sasl = sasl, !.hook.producer = prod] :
               tls \in SecuritySettings, sasl \in SecuritySettings, prod \in Producers}

\* What producer.Close() can return: KafkaProducer.Close returns nil.
ProducerCloseOutcomes(prod) ==
  IF prod = "KafkaProducer" THEN {"nil"} ELSE {"nil", "producer close failed"}

\* OnStop, `if err := producer.Close(); err != nil { return err }`.
StopProducer ==
  /\ kc.hook.pc = "idle"
  /\ \E e \in ProducerCloseOutcomes(kc.hook.producer) :
       kc' = [kc EXCEPT !.hook.perr = e,
                        !.hook.pc = IF e # "nil" THEN "done" ELSE "consumer",
                        !.hook.ret = IF e # "nil" THEN e ELSE @]
  /\ UNCHANGED <<cacheVars, apps, shut, fac, sp, libVars>>

\* OnStop, `return consumer.Close()`: every reader is closed, the errors
\* of the readers are collected into one.
StopConsumer ==
  /\ kc.hook.pc = "consumer"
  /\ \E e \in IF \E tpc \in Topics : kc.g[tpc].pc # "none"
                 THEN {"nil", "failed to close some readers"} ELSE {"nil"} :
       kc' = [kc EXCEPT !.closed = @ \cup {tpc \in Topics : kc.g[tpc].pc # "none"},
                        !.hook.cerr = e,
                        !.hook.pc = "done",
                        !.hook.ret = e]
  /\ UNCHANGED <<cacheVars, apps, shut, fac, sp, libVars>>

KafkaModuleNext ==
  \/ \E topics \in SUBSET Topics : Subscribe(topics)
  \/ SubscribeReturn
  \/ Cancel
  \/ \E tpc \in Topics : ConsumerStops(tpc)
  \/ \E tpc \in Topics : FetchMessage(tpc)
  \/ \E tpc \in Topics : FetchEOF(tpc)
  \/ \E tpc \in Topics : Handle(tpc)
  \/ \E tpc \in Topics : Commit(tpc)
  \/ StopProducer
  \/ StopConsumer

\* An application with the kafka module: one consumer that subscribes and
\* consumes, and the stop hook of the module.
SpecKafkaModule == KafkaModuleInit /\ [][KafkaModuleNext]_vars

C25_NoUnsecuredReader ==
  \A tpc \in Topics :
    kc.g[tpc].pc # "none" =>
      /\ kc.tls # "off" => kc.g[tpc].dialTLS
      /\ kc.sasl # "off" => kc.g[tpc].dialSASL

\* --------------------------------------------------- kafkaHeaderCarrier
HeaderKeys == {"traceparent", "tracestate"}
HeaderValues == {"", "a", "ab"}

\* []byte(value) and string(h.Value): a string and its bytes.
ToBytes(v) == IF v = "" THEN <<>> ELSE IF v = "a" THEN <<97>> ELSE <<97, 98>>
FromBytes(b) == IF b = <<>> THEN "" ELSE IF b = <<97>> THEN "a" ELSE "ab"

Headers == {[Key |-> k, Value |-> ToBytes(v)] : k \in HeaderKeys, v \in HeaderValues}

\* A carrier is made around the headers of a message, which may name a
\* key more than once.
CarrierInit ==
  /\ CacheInit
  /\ apps = [t \in Threads |-> NoApp]
  /\ shut = NoShutdown
  /\ fac = NoFactoryCall
  /\ kc = NoConsumer
  /\ sp = [c \in Calls |-> NoCall]
  /\ mw = NoMiddleware
  /\ mem = NoMem
  /\ hc \in {[NoCarrier EXCEPT !.headers = h] :
               h \in UNION {[1..n -> Headers] : n \in 0..(MaxHeaders - 1)}}

\* `for i, h := range c.headers { if h.Key == key`: the index of the first
\* header with the key from position i on, 0 when the loop ends without.
RECURSIVE FirstFrom(_, _, _)
FirstFrom(h, key, i) ==
  IF i > Len(h) THEN 0
  ELSE IF h[i].Key = key THEN i ELSE FirstFrom(h, key, i + 1)

\* Get.
HeaderGet(h, key) ==
  LET i == FirstFrom(h, key, 1) IN
  IF i = 0 THEN "" ELSE FromBytes(h[i].Value)

HeaderSetAppends(h, key, value) == Append(h, [Key |-> key, Value |-> ToBytes(value)])
\* Set: the first header with the key gets the value, a key that is not
\* there is appended.
HeaderSet(h, key, value) ==
  LET i == FirstFrom(h, key, 1) IN
  IF i = 0 THEN Append(h, [Key |-> key, Value |-> ToBytes(value)])
  ELSE [h EXCEPT ![i].Value = ToBytes(value)]

\* Keys.
HeaderKeysOf(h) == [i \in 1..Len(h) |-> h[i].Key]

CarrierSet(key, value) ==
  /\ Len(hc.headers) < MaxHeaders \/ FirstFrom(hc.headers, key, 1) # 0
  /\ hc' = [hc EXCEPT !.headers = HeaderSet(@, key, value), !.op = "set", !.key = key,
                      !.value = value, !.before = hc.headers]
  /\ UNCHANGED <<cacheVars, apps, shut, fac, kc, sp, mw, mem>>

CarrierGet(key) ==
  /\ hc' = [hc EXCEPT !.op = "get", !.key = key, !.res = HeaderGet(hc.headers, key),
                      !.before = hc.headers]
  /\ UNCHANGED <<cacheVars, apps, shut, fac, kc, sp, mw, mem>>

CarrierKeys ==
  /\ hc' = [hc EXCEPT !.op = "keys", !.keys = HeaderKeysOf(hc.headers),
                      !.before = hc.headers]
  /\ UNCHANGED <<cacheVars, apps, shut, fac, kc, sp, mw, mem>>

CarrierNext ==
  \/ \E key \in HeaderKeys, value \in HeaderValues : CarrierSet(key, value)
  \/ \E key \in HeaderKeys : CarrierGet(key)
  \/ CarrierKeys

SpecCarrier == CarrierInit /\ [][CarrierNext]_vars

\* The positions of the headers with the key.
Matches(h, key) == {i \in 1..Len(h) : h[i].Key = key}

\* The least position of a non-empty set of positions.
Least(S) == CHOOSE i \in S : \A j \in S : i <= j

\* C26: after Set(k, v), Get(k) is v; when k was present the first header
\* with k holds v, the number of headers is the same and every other
\* header is as before, when k was absent one header <<k, v>> is added
\* at the end behind the unchanged others; Get gives the value of the
\* first header with the key and "" when there is none; Keys gives the
\* keys in header order.
C26_CarrierLaws ==
  /\ hc.op = "set" =>
       LET old == Matches(hc.before, hc.key) IN
       /\ HeaderGet(hc.headers, hc.key) = hc.value
       /\ IF old # {}
            THEN /\ Len(hc.headers) = Len(hc.before)
                 /\ \A i \in 1..Len(hc.before) :
                      /\ hc.headers[i].Key = hc.before[i].Key
                      /\ hc.headers[i].Value =
                           IF i = Least(old) THEN ToBytes(hc.value) ELSE hc.before[i].Value
            ELSE /\ Len(hc.headers) = Len(hc.before) + 1
                 /\ SubSeq(hc.headers, 1, Len(hc.before)) = hc.before
                 /\ hc.headers[Len(hc.headers)] = [Key |-> hc.key, Value |-> ToBytes(hc.value)]
  /\ hc.op = "get" =>
       /\ hc.headers = hc.before
       /\ LET at == Matches(hc.headers, hc.key) IN
            hc.res = IF at = {} THEN "" ELSE FromBytes(hc.headers[Least(at)].Value)
  /\ hc.op = "keys" =>
       /\ hc.headers = hc.before
       /\ Len(hc.keys) = Len(hc.headers)
       /\ \A i \in 1..Len(hc.headers) : hc.keys[i] = hc.headers[i].Key

\* Set has overwritten the first of two headers with the same key and
\* left the second, which holds another value.
C26_Witness ==
  /\ hc.op = "set"
  /\ Cardinality(Matches(hc.before, hc.key)) = 2
  /\ hc.headers # hc.before
  /\ \E i \in Matches(hc.headers, hc.key) : hc.headers[i].Value # ToBytes(hc.value)

\* ----------------------------------------------- providers across apps
\* C27: a get that returns a provider without error returns one that has
\* not been shut down, also when an earlier app's stop hook has shut the
\* cached provider of that service name down.
C27_ReturnedNeverShutDown ==
  [][\A t \in Threads :
       (Returns(t) /\ last'.err = "nil" /\ last'.ret # NilProvider)
         => LiveIn(provs', last'.ret)]_vars

\* The app of goroutine u can still come to hold provider p and shut it
\* down in its stop hook: it holds p and has not stopped, or it has not
\* been built yet, or its get for p's service name is under way.
CanStillStop(u, p) ==
  \/ apps[u].pc = "none"
  \/ apps[u].pc = "tracer" /\ apps[u].key = provs[p].key
  \/ apps[u].pc \in {"meterCall", "meter", "started", "stopMeter"} /\ apps[u].tp = p

\* C29: when newTracingModule has failed at GetMeterProvider, the tracer
\* provider it had obtained is not left live without any app whose stop
\* hook will shut it down.
C29_NoOrphan ==
  \A t \in Threads :
    (apps[t].pc = "failed" /\ apps[t].tp # NilProvider /\ Live(apps[t].tp))
      => \E u \in Threads \ {t} : CanStillStop(u, apps[t].tp)

\* ------------------------------------------- the default after a race
AllReturned == \A t \in Threads : th[t].pc = "idle"

\* C28 as stated: once every get has returned, the default of each kind
\* is a provider that a cache holds or held, never a candidate that lost
\* its race and was shut down on the discard path.
C28_DefaultIsSurvivor ==
  AllReturned =>
    \A k \in Kinds : global[k] # NilProvider => global[k] \in HandedOut

\* C28: once every get has returned, the default of each kind is a
\* provider that a cache holds or held or, when a losing get finished its
\* factory call last, that loser: a provider that was shut down on the
\* discard path and was constructed after every provider of its kind
\* that a cache holds or held.
C28_DefaultIsLastWriter ==
  AllReturned =>
    \A k \in Kinds :
      (global[k] # NilProvider /\ global[k] \notin HandedOut) =>
        /\ provs[global[k]].shutdowns >= 1
        /\ \A q \in HandedOut : provs[q].kind = k => q < global[k]

\* Both racing gets for one name have returned and the default is the
\* discarded loser, not the provider in the cache.
C28_Witness ==
  /\ AllReturned
  /\ last.line = 59
  /\ last.tp # NilProvider
  /\ global[last.kind] = last.tp
  /\ ~Live(last.tp)
  /\ cache[last.kind][last.key] = last.ret
  /\ last.ret # last.tp

\* ------------------------------------------------ consumers and cancel
\* The scheduler is fair to every consume goroutine, and handlers,
\* commits and fetches under a done context return.
SpecConsumerFair ==
  /\ Init
  /\ [][ConsumerNext]_vars
  /\ \A tpc \in Topics :
       /\ WF_vars(ConsumerStops(tpc))
       /\ WF_vars(Handle(tpc))
       /\ WF_vars(Commit(tpc))

\* No consume goroutine is running.
AllExited == \A tpc \in Topics : kc.g[tpc].pc \in {"none", "stopped", "failed"}

\* The consume goroutine of the topic leaves its loop in this step.
Exits(tpc) ==
  /\ kc.g[tpc].pc \in {"loop", "handle", "commit"}
  /\ kc'.g[tpc].pc \in {"stopped", "failed"}

\* C30 as stated: after the context is cancelled every consume goroutine
\* eventually exits, and while the context is live nothing makes a
\* goroutine leave its loop.
C30_OnlyCancelEnds ==
  /\ (kc.ctx = "cancelled") ~> AllExited
  /\ [][\A tpc \in Topics : Exits(tpc) => kc.ctx = "cancelled"]_vars

\* C30: after the context is cancelled every consume goroutine
\* eventually exits; while the context is live a goroutine leaves its
\* loop only when FetchMessage returns io.EOF on its closed reader, and
\* neither another fetch error nor a handler error ends it.
C30_CancelOrEOFEnds ==
  /\ (kc.ctx = "cancelled") ~> AllExited
  /\ [][\A tpc \in Topics :
          Exits(tpc) =>
            \/ kc.ctx = "cancelled"
            \/ /\ tpc \in kc.closed
               /\ kc.g[tpc].pc = "loop"
               /\ kc'.g[tpc].handled = kc.g[tpc].handled
               /\ kc'.g[tpc].fetchErrs = kc.g[tpc].fetchErrs]_vars

\* A goroutine that met a fetch error and a failing handler while the
\* context was live has exited after the cancel.
C30_Witness ==
  /\ kc.ctx = "cancelled"
  /\ AllExited
  /\ \E tpc \in Topics :
       /\ kc.g[tpc].pc = "stopped"
       /\ kc.g[tpc].fetchErrs >= 1
       /\ \E i \in 1..Len(kc.g[tpc].handled) : kc.g[tpc].handled[i] = "handler failed"

====
